---------------------------- MODULE Spec2Model ----------------------------
(***************************************************************************)
(* A model of fine-tuning-lstm.ipynb: the preprocessing functions, the     *)
(* worker-pool map, the bucketed batch sampler, the training loop, the     *)
(* parameter snapshot, the inference loop and the submission.              *)
(*                                                                         *)
(* Each part of the notebook has its own specification over its own group  *)
(* of variables; the variables of the other groups stay at their idle      *)
(* values.                                                                 *)
(***************************************************************************)
EXTENDS Integers, Sequences, FiniteSets, TLC

VARIABLES
    \* ---- preprocessing of one sample (cell "tokenizer / length_clip")
    pre_x,          \* the raw sample handed to the function: <<text, label>>
    pre_fn,         \* which function was applied: "none", "preprocess", "test_preprocess"
    pre_data,       \* the token ids it returned
    pre_len,        \* get_length of the preprocessed sample, or -1 before it ran
    \* ---- MeanPoolingLayer on two batches side by side
    pool_data,      \* <<data, data'>>: two encoder outputs, each [t][n] (T, N, C = 1)
    pool_valid,     \* valid_length[n], shared by the two batches
    pool_out,       \* <<agg_state, agg_state'>> once the layer ran, <<>> before
    \* ---- pool.map(func, iterable) on the worker-process pool
    map_func,       \* "preprocess", "get_length" or "test_preprocess"
    map_iterable,   \* the samples handed to the map
    map_pc,         \* "start", "running", "returned", "raised"
    map_chunksize,  \* the chunk size the map computed
    map_next,       \* number of the next chunk to hand to a worker (the task queue is FIFO)
    map_busy,       \* map_busy[w]: the chunk worker w is computing, 0 when it has none
    map_value,      \* MapResult._value: the result list, <<>> (None) where not yet set, <<r>> where set
    map_left,       \* MapResult._number_left: chunks not yet reported
    map_success,    \* MapResult._success
    map_result,     \* what pool.map returned, <<>> before
    \* ---- batch_sampler = FixedBucketSampler(train_data_lengths, ...), iterated once per epoch
    samp_lengths,           \* train_data_lengths
    samp_batch_size,        \* batch_size
    samp_pc,                \* "new", "ready", "iterating", "error"
    samp_bucket_keys,       \* self._bucket_keys
    samp_bucket_sample_ids, \* self._bucket_sample_ids
    samp_bucket_batch_sizes,\* self._bucket_batch_sizes
    samp_batch_infos,       \* self._batch_infos: <<bucket_id, batch_begin>> pairs
    samp_pos,               \* how many entries of _batch_infos the running iterator has yielded
    samp_yielded,           \* the batches yielded in the running (or last finished) epoch
    samp_epoch,             \* how many epochs have been iterated to the end
    \* ---- the training loop
    tr_epochs,          \* epochs
    tr_grad_clip,       \* grad_clip: <<>> for None, <<c>> for the number c
    tr_log_interval,    \* log_interval
    tr_loader,          \* train_dataloader: the number of samples (data.shape[1]) of each batch
    tr_pc,              \* position in the loop: "epoch", "fetch", "forward", "backward",
                        \* "clip", "step", "log", "done"
    tr_epoch,           \* epoch
    tr_i,               \* i of enumerate(train_dataloader)
    tr_L,               \* L
    tr_loss,            \* loss(output, label).mean() of the batch in hand
    tr_log_interval_sent_num,   \* log_interval_sent_num
    tr_log_interval_L,  \* log_interval_L
    tr_epoch_sent_num,  \* epoch_sent_num
    tr_epoch_L,         \* epoch_L
    tr_num_update,      \* how often trainer.step ran
    tr_printed,         \* the last log line: [avg_loss, batch], <<>> before the first
    \* history of the training loop, kept for the properties
    tr_trace,           \* what ran for the batch in hand, in order
    tr_num_backward,    \* how often L.backward() ran
    tr_terms,           \* the values added to log_interval_L since it was last cleared
    tr_printed_terms,   \* tr_terms as it was when the last log line was printed
    \* ---- the test set, the inference loop and the submission
    inf_test_df,        \* test_df: rows [id, comment_text]
    inf_batch_size,     \* batch_size
    inf_params,         \* the parameters of net
    inf_pc,             \* "raw", "dataset", "loop", "looped", "predicted", "submitted",
                        \* "written", "error"
    inf_test_dataset,   \* test_dataset
    inf_batch,          \* how many batches of test_dataloader the loop has consumed
    inf_results,        \* results
    inf_predictions,    \* predictions
    inf_submission,     \* submission: rows [id, prediction]
    inf_csv,            \* the lines of submission.csv, <<>> while it is not written
    inf_pooled,         \* the valid_length vectors handed to MeanPoolingLayer so far
    \* ---- net's parameters and the parameter file 'lm-20190624-2'
    net_params,         \* the parameters of net: [embedding, encoder, output]
    file_params,        \* the file: <<>> while it does not exist, else name -> value
    net_out,            \* the last output of the single-input prediction cell, <<>> before
    \* history of the parameter cells, kept for the properties
    ck_hist,            \* the parameter operations so far: "step", "save", "load", "load_error", "predict"
    ck_net_at_save,     \* net_params as they were at the last save, <<>> before
    ck_out_at_save,     \* the single-input prediction as it was at the last save, <<>> before
    \* ---- one run of the notebook's cells in their written order
    run_epochs,         \* epochs
    run_train_batches,  \* len(train_dataloader)
    run_test_batches,   \* len(test_dataloader)
    run_pc,             \* the cell to run next, "done" after the last, "aborted" after an error
    run_loop,           \* "in" while inside the loop of the training or the inference cell
    run_epoch,          \* epoch of the training loop
    run_batch,          \* batches consumed in the current loop
    run_results,        \* number of batch outputs results was extended with
    run_csv,            \* 'submission.csv': <<>> while not written, else <<number of batches written>>
    \* history of the run, kept for the properties
    run_failed,         \* the cell whose operation raised, "none" before
    run_failed_op,      \* the operation that raised, "none" before
    run_attempts,       \* cell -> number of times it was started
    run_ops,            \* cell -> number of forward passes started in it
    run_done            \* the cells that ran to their end

preVars == <<pre_x, pre_fn, pre_data, pre_len>>
poolVars == <<pool_data, pool_valid, pool_out>>
mapVars == <<map_func, map_iterable, map_pc, map_chunksize, map_next, map_busy,
             map_value, map_left, map_success, map_result>>

sampVars == <<samp_lengths, samp_batch_size, samp_pc, samp_bucket_keys,
              samp_bucket_sample_ids, samp_bucket_batch_sizes, samp_batch_infos,
              samp_pos, samp_yielded, samp_epoch>>

trVars == <<tr_epochs, tr_grad_clip, tr_log_interval, tr_loader, tr_pc, tr_epoch, tr_i,
            tr_L, tr_loss, tr_log_interval_sent_num, tr_log_interval_L,
            tr_epoch_sent_num, tr_epoch_L, tr_num_update, tr_printed, tr_trace,
            tr_num_backward, tr_terms, tr_printed_terms>>

infVars == <<inf_test_df, inf_batch_size, inf_params, inf_pc, inf_test_dataset, inf_batch,
             inf_results, inf_predictions, inf_submission, inf_csv, inf_pooled>>

ckVars == <<net_params, file_params, net_out, ck_hist, ck_net_at_save, ck_out_at_save>>

runVars == <<run_epochs, run_train_batches, run_test_batches, run_pc, run_loop, run_epoch,
             run_batch, run_results, run_csv, run_failed, run_failed_op, run_attempts,
             run_ops, run_done>>

vars == <<preVars, poolVars, mapVars, sampVars, trVars, infVars, ckVars, runVars>>

(***************************************************************************)
(* Bounds of the model.                                                    *)
(***************************************************************************)
\* Longest text, in characters, enumerated exhaustively.
MaxTextLen == 2
\* How many tokens past the clip length the long texts reach.
MaxOver == 2
\* Time steps (T) of a batch handed to the mean-pooling layer.
MaxT == 2
\* Longest iterable handed to pool.map.
MaxItems == 9
\* Worker processes of the pool (mp.Pool() starts one per CPU).
NumWorkers == 2
\* Most training samples handed to the batch sampler.
MaxSamples == 3
\* Largest configured batch_size.
MaxBatchSize == 3
\* Most epochs the sampler is iterated.
MaxEpochs == 2
\* Most batches the training data loader yields per epoch.
MaxBatches == 2
\* Largest configured log_interval.
MaxLogInterval == 2
\* Most rows of the test set.
MaxTestRows == 3
\* Most parameter operations (step, save, load, predict) run by hand in a row.
MaxOps == 3
\* Most batches of the test loader in a run of the whole notebook.
MaxTestBatches == 2

(***************************************************************************)
(* Small helpers.                                                          *)
(***************************************************************************)
Min(a, b) == IF a < b THEN a ELSE b
Max(a, b) == IF a > b THEN a ELSE b

RECURSIVE Gcd(_, _)
Gcd(a, b) == IF b = 0 THEN a ELSE Gcd(b, a % b)

RECURSIVE SumTo(_, _)
\* f[1] + ... + f[n]
SumTo(f, n) == IF n = 0 THEN 0 ELSE SumTo(f, n - 1) + f[n]

\* Float division of two non-negative numbers: the quotient as a fraction in lowest
\* terms, and what the division yields for a zero divisor.
Divide(a, b) ==
    IF b = 0 THEN (IF a = 0 THEN "nan" ELSE "inf")
    ELSE LET g == Gcd(a, b) IN <<a \div g, b \div g>>

(***************************************************************************)
(* Texts.  A text is a sequence of characters.  The words of the model's   *)
(* alphabet are single letters: "a" and "b" are in the vocabulary, "z" is  *)
(* not, " " separates words.                                               *)
(***************************************************************************)
Alphabet == {"a", "b", "z", " "}
Letters == <<"a", "b", "z">>

ShortTexts == UNION {[1..n -> Alphabet] : n \in 0..MaxTextLen}

\* A text of n words, word i being letter (i + s) mod 3, separated by blanks.
PatternText(n, s) ==
    [i \in 1..(2 * n) |-> IF i % 2 = 1 THEN Letters[(((i + 1) \div 2 + s) % 3) + 1]
                                        ELSE " "]

\* tokenizer = nlp.data.SpacyTokenizer('en'): the words of the text, in order.
tokenizer(text) == SelectSeq(text, LAMBDA c : c # " ")

\* length_clip = nlp.data.ClipSequence(500)
ClipLength == 500

length_clip_last(sample) ==
    IF Len(sample) > ClipLength
    THEN SubSeq(sample, Len(sample) - ClipLength + 1, Len(sample))
    ELSE sample

length_clip(sample) == SubSeq(sample, 1, Min(Len(sample), ClipLength))

\* vocab[token]: the id of the token, the id of the unknown token when it has none.
vocab_idx(tok) ==
    CASE tok = "a" -> 1
      [] tok = "b" -> 2
      [] OTHER -> 0

\* vocab[tokens]: a list of tokens gives the list of their ids.
vocab(tokens) == [i \in 1..Len(tokens) |-> vocab_idx(tokens[i])]

preprocess(x) == <<vocab(length_clip(tokenizer(x[1]))), x[2]>>

test_preprocess(x) == vocab(length_clip(tokenizer(x[1])))

get_length(x) == Len(x[1])

LongTexts == {PatternText(n, s) : n \in (ClipLength - 1)..(ClipLength + MaxOver), s \in 0..2}

Labels == {0, 1}

(***************************************************************************)
(* SpecPre: preprocess, test_preprocess and get_length on one sample.      *)
(***************************************************************************)
PreIdle ==
    /\ pre_x = <<>>
    /\ pre_fn = "none"
    /\ pre_data = <<>>
    /\ pre_len = -1

PoolIdle ==
    /\ pool_data = <<>>
    /\ pool_valid = <<>>
    /\ pool_out = <<>>

MapIdle ==
    /\ map_func = "none"
    /\ map_iterable = <<>>
    /\ map_pc = "idle"
    /\ map_chunksize = 0
    /\ map_next = 0
    /\ map_busy = <<>>
    /\ map_value = <<>>
    /\ map_left = 0
    /\ map_success = TRUE
    /\ map_result = <<>>

SampIdle ==
    /\ samp_lengths = <<>>
    /\ samp_batch_size = 0
    /\ samp_pc = "idle"
    /\ samp_bucket_keys = <<>>
    /\ samp_bucket_sample_ids = <<>>
    /\ samp_bucket_batch_sizes = <<>>
    /\ samp_batch_infos = <<>>
    /\ samp_pos = 0
    /\ samp_yielded = <<>>
    /\ samp_epoch = 0

TrIdle ==
    /\ tr_epochs = 0
    /\ tr_grad_clip = <<>>
    /\ tr_log_interval = 0
    /\ tr_loader = <<>>
    /\ tr_pc = "idle"
    /\ tr_epoch = 0
    /\ tr_i = 0
    /\ tr_L = 0
    /\ tr_loss = 0
    /\ tr_log_interval_sent_num = 0
    /\ tr_log_interval_L = 0
    /\ tr_epoch_sent_num = 0
    /\ tr_epoch_L = 0
    /\ tr_num_update = 0
    /\ tr_printed = <<>>
    /\ tr_trace = <<>>
    /\ tr_num_backward = 0
    /\ tr_terms = <<>>
    /\ tr_printed_terms = <<>>

InfIdle ==
    /\ inf_test_df = <<>>
    /\ inf_batch_size = 0
    /\ inf_params = <<>>
    /\ inf_pc = "idle"
    /\ inf_test_dataset = <<>>
    /\ inf_batch = 0
    /\ inf_results = <<>>
    /\ inf_predictions = <<>>
    /\ inf_submission = <<>>
    /\ inf_csv = <<>>
    /\ inf_pooled = <<>>

CkIdle ==
    /\ net_params = <<>>
    /\ file_params = <<>>
    /\ net_out = <<>>
    /\ ck_hist = <<>>
    /\ ck_net_at_save = <<>>
    /\ ck_out_at_save = <<>>

RunIdle ==
    /\ run_epochs = 0
    /\ run_train_batches = 0
    /\ run_test_batches = 0
    /\ run_pc = "idle"
    /\ run_loop = "out"
    /\ run_epoch = 0
    /\ run_batch = 0
    /\ run_results = 0
    /\ run_csv = <<>>
    /\ run_failed = "none"
    /\ run_failed_op = "none"
    /\ run_attempts = <<>>
    /\ run_ops = <<>>
    /\ run_done = {}

NotPre == <<poolVars, mapVars, sampVars, trVars, infVars, ckVars, runVars>>
NotPool == <<preVars, mapVars, sampVars, trVars, infVars, ckVars, runVars>>
NotMap == <<preVars, poolVars, sampVars, trVars, infVars, ckVars, runVars>>
NotSamp == <<preVars, poolVars, mapVars, trVars, infVars, ckVars, runVars>>
NotTr == <<preVars, poolVars, mapVars, sampVars, infVars, ckVars, runVars>>
NotInf == <<preVars, poolVars, mapVars, sampVars, trVars, ckVars, runVars>>
NotCk == <<preVars, poolVars, mapVars, sampVars, trVars, infVars, runVars>>
NotRun == <<preVars, poolVars, mapVars, sampVars, trVars, infVars>>

InitPre ==
    /\ pre_x \in (ShortTexts \cup LongTexts) \X Labels
    /\ pre_fn = "none"
    /\ pre_data = <<>>
    /\ pre_len = -1
    /\ PoolIdle /\ MapIdle /\ SampIdle /\ TrIdle /\ InfIdle /\ CkIdle /\ RunIdle

\* train_dataset element: preprocess(x)
ApplyPreprocess ==
    /\ pre_fn = "none"
    /\ pre_fn' = "preprocess"
    /\ pre_data' = preprocess(pre_x)[1]
    /\ UNCHANGED <<pre_x, pre_len>>
    /\ UNCHANGED NotPre

\* test_dataset element: test_preprocess(x); a test row has the text only
ApplyTestPreprocess ==
    /\ pre_fn = "none"
    /\ pre_fn' = "test_preprocess"
    /\ pre_data' = test_preprocess(<<pre_x[1]>>)
    /\ UNCHANGED <<pre_x, pre_len>>
    /\ UNCHANGED NotPre

\* train_data_lengths element: get_length of the preprocessed training sample
ApplyGetLength ==
    /\ pre_fn = "preprocess"
    /\ pre_len = -1
    /\ pre_len' = get_length(<<pre_data, pre_x[2]>>)
    /\ UNCHANGED <<pre_x, pre_fn, pre_data>>
    /\ UNCHANGED NotPre

NextPre == ApplyPreprocess \/ ApplyTestPreprocess \/ ApplyGetLength

SpecPre == InitPre /\ [][NextPre]_vars

\* C5: the ids returned by preprocess and test_preprocess are at most ClipLength
\* (500) long and are the ids of the first min(n, 500) tokens of the tokenized
\* text, in their order.
C5_ClippedPrefix ==
    pre_fn # "none" =>
        LET toks == tokenizer(pre_x[1])
            k == IF Len(toks) < 500 THEN Len(toks) ELSE 500
        IN /\ Len(pre_data) <= 500
           /\ Len(pre_data) = k
           /\ \A i \in 1..k : pre_data[i] = vocab_idx(toks[i])

C5_Witness ==
    /\ pre_fn # "none"
    /\ Len(tokenizer(pre_x[1])) > 500
    /\ Len(pre_data) = 500

(***************************************************************************)
(* SpecPool: MeanPoolingLayer.hybrid_forward on a batch of two samples,    *)
(* run on two inputs side by side.  Features are scalars (C = 1): the      *)
(* layer treats the channel axis elementwise.                              *)
(***************************************************************************)
FeatureVals == {0, 1}
PoolSamples == {1, 2}

\* F.SequenceMask(data, sequence_length, use_sequence_length=False): nothing masked
SequenceMaskOff(data, sequence_length) == data

\* F.SequenceMask(data, sequence_length=valid_length, use_sequence_length=True):
\* along axis 0, the steps from sequence_length[n] on are set to 0.
SequenceMask(data, sequence_length) ==
    [t \in DOMAIN data |->
        [n \in DOMAIN data[t] |-> IF t <= sequence_length[n] THEN data[t][n] ELSE 0]]

\* MeanPoolingLayer.hybrid_forward(F, data, valid_length), data of shape (T, N)
MeanPoolingLayer(data, valid_length) ==
    LET masked_encoded == SequenceMask(data, valid_length)
        T == Len(data)
    IN [n \in DOMAIN valid_length |->
            Divide(SumTo([t \in 1..T |-> masked_encoded[t][n]], T), valid_length[n])]

PoolBatches == [1..MaxT -> [PoolSamples -> FeatureVals]]

InitPool ==
    /\ pool_data \in PoolBatches \X PoolBatches
    /\ pool_valid \in [PoolSamples -> 0..MaxT]
    /\ pool_out = <<>>
    /\ PreIdle /\ MapIdle /\ SampIdle /\ TrIdle /\ InfIdle /\ CkIdle /\ RunIdle

PoolForward ==
    /\ pool_out = <<>>
    /\ pool_out' = <<MeanPoolingLayer(pool_data[1], pool_valid),
                     MeanPoolingLayer(pool_data[2], pool_valid)>>
    /\ UNCHANGED <<pool_data, pool_valid>>
    /\ UNCHANGED NotPool

NextPool == PoolForward

SpecPool == InitPool /\ [][NextPool]_vars

\* The two batches agree on every sample's steps before its valid length.
AgreeOnValidPrefix ==
    \A n \in PoolSamples : \A t \in 1..MaxT :
        t <= pool_valid[n] => pool_data[1][t][n] = pool_data[2][t][n]

\* C3: two batches with the same valid lengths that agree on every sample's
\* valid-length prefix have the same pooled vectors, whatever the padded positions hold.
C3_PaddingIndependent ==
    (pool_out # <<>> /\ AgreeOnValidPrefix) => pool_out[1] = pool_out[2]

C3_Witness ==
    /\ pool_out # <<>>
    /\ AgreeOnValidPrefix
    /\ \E n \in PoolSamples : \E t \in 1..MaxT :
          /\ pool_valid[n] >= 1
          /\ t > pool_valid[n]
          /\ pool_data[1][t][n] # pool_data[2][t][n]
    /\ pool_out[1] = pool_out[2]

(***************************************************************************)
(* SpecMap: pool = mp.Pool(); pool.map(func, iterable).  The map cuts the  *)
(* iterable into chunks, the workers take the chunks off a FIFO task queue *)
(* and report each chunk's results when they are done, in any order; the   *)
(* result handler stores a chunk's results at the chunk's place.           *)
(***************************************************************************)
Workers == 1..NumWorkers

MapTexts == << <<>>, <<"a">>, <<"z", " ", "b">>, <<"b", "a">> >>

\* The k-th raw row of the model's data: text (k + s) mod 4, label k mod 2.
RawRow(k, s) == <<MapTexts[((k + s) % 4) + 1], k % 2>>

\* The function the map applies, on one element of the iterable.
Apply(func, x) ==
    CASE func = "preprocess" -> preprocess(x)
      [] func = "test_preprocess" -> test_preprocess(x)
      [] func = "get_length" -> get_length(x)

\* What the notebook hands to the map for each of the three functions.
IterableFor(func, n, s) ==
    CASE func = "preprocess" -> [k \in 1..n |-> RawRow(k, s)]
      [] func = "test_preprocess" -> [k \in 1..n |-> <<RawRow(k, s)[1]>>]
      [] func = "get_length" -> [k \in 1..n |-> preprocess(RawRow(k, s))]

\* chunksize, extra = divmod(len(iterable), len(self._pool) * 4); if extra: chunksize += 1
ChunkSize(n) ==
    IF n = 0 THEN 0
    ELSE (n \div (NumWorkers * 4)) + (IF n % (NumWorkers * 4) # 0 THEN 1 ELSE 0)

\* number of chunks: length // chunksize + bool(length % chunksize)
NumChunks(n, chunksize) ==
    IF chunksize <= 0 THEN 0
    ELSE (n \div chunksize) + (IF n % chunksize # 0 THEN 1 ELSE 0)

\* The elements of chunk i (numbered from 1): iterable[(i-1)*chunksize : i*chunksize]
ChunkItems(iterable, chunksize, i) ==
    SubSeq(iterable, (i - 1) * chunksize + 1, Min(i * chunksize, Len(iterable)))

\* A faulty result handler: appends each chunk's results in the order they arrive.
StoreChunkArrival(value, chunksize, i, result) ==
    LET filled == SelectSeq(value, LAMBDA v : v # <<>>)
        all == filled \o [k \in 1..Len(result) |-> <<result[k]>>]
    IN [k \in 1..Len(value) |-> IF k <= Len(all) THEN all[k] ELSE <<>>]

\* self._value[i*self._chunksize:(i+1)*self._chunksize] = result
StoreChunk(value, chunksize, i, result) ==
    [k \in 1..Len(value) |->
        IF (i - 1) * chunksize < k /\ k <= (i - 1) * chunksize + Len(result)
        THEN <<result[k - (i - 1) * chunksize]>>
        ELSE value[k]]

MapFuncs == {"preprocess", "test_preprocess", "get_length"}

InitMap ==
    /\ map_func \in MapFuncs
    /\ \E n \in 0..MaxItems, s \in 0..3 : map_iterable = IterableFor(map_func, n, s)
    /\ map_pc = "start"
    /\ map_chunksize = 0
    /\ map_next = 0
    /\ map_busy = [w \in Workers |-> 0]
    /\ map_value = <<>>
    /\ map_left = 0
    /\ map_success = TRUE
    /\ map_result = <<>>
    /\ PreIdle /\ PoolIdle /\ SampIdle /\ TrIdle /\ InfIdle /\ CkIdle /\ RunIdle

\* pool.map is called: the chunks are queued and the MapResult is set up.
MapCall ==
    /\ map_pc = "start"
    /\ map_pc' = "running"
    /\ map_chunksize' = ChunkSize(Len(map_iterable))
    /\ map_next' = 1
    /\ map_value' = [k \in 1..Len(map_iterable) |-> <<>>]
    /\ map_left' = NumChunks(Len(map_iterable), ChunkSize(Len(map_iterable)))
    /\ UNCHANGED <<map_func, map_iterable, map_busy, map_success, map_result>>
    /\ UNCHANGED NotMap

\* An idle worker takes the next chunk off the task queue.
WorkerTake(w) ==
    /\ map_pc = "running"
    /\ map_busy[w] = 0
    /\ map_next <= NumChunks(Len(map_iterable), map_chunksize)
    /\ map_busy' = [map_busy EXCEPT ![w] = map_next]
    /\ map_next' = map_next + 1
    /\ UNCHANGED <<map_func, map_iterable, map_pc, map_chunksize, map_value,
                   map_left, map_success, map_result>>
    /\ UNCHANGED NotMap

\* A worker finished its chunk; the result handler calls MapResult._set(i, (True, result)).
WorkerDone(w) ==
    /\ map_pc = "running"
    /\ map_busy[w] # 0
    /\ LET i == map_busy[w]
           items == ChunkItems(map_iterable, map_chunksize, i)
           result == [k \in 1..Len(items) |-> Apply(map_func, items[k])]
       IN map_value' = IF map_success
                       THEN StoreChunk(map_value, map_chunksize, i, result)
                       ELSE map_value
    /\ map_left' = map_left - 1
    /\ map_busy' = [map_busy EXCEPT ![w] = 0]
    /\ UNCHANGED <<map_func, map_iterable, map_pc, map_chunksize, map_next,
                   map_success, map_result>>
    /\ UNCHANGED NotMap

\* The function raised in a worker: MapResult._set(i, (False, exception)).
WorkerRaise(w) ==
    /\ map_pc = "running"
    /\ map_busy[w] # 0
    /\ map_success' = FALSE
    /\ map_value' = IF map_success THEN <<>> ELSE map_value
    /\ map_left' = map_left - 1
    /\ map_busy' = [map_busy EXCEPT ![w] = 0]
    /\ UNCHANGED <<map_func, map_iterable, map_pc, map_chunksize, map_next, map_result>>
    /\ UNCHANGED NotMap

\* Every chunk reported: MapResult.get() returns the value, or raises the exception.
MapReturn ==
    /\ map_pc = "running"
    /\ map_left = 0
    /\ map_pc' = IF map_success THEN "returned" ELSE "raised"
    /\ map_result' = IF map_success
                     THEN [k \in 1..Len(map_value) |-> map_value[k][1]]
                     ELSE <<>>
    /\ UNCHANGED <<map_func, map_iterable, map_chunksize, map_next, map_busy,
                   map_value, map_left, map_success>>
    /\ UNCHANGED NotMap

NextMap ==
    \/ MapCall
    \/ \E w \in Workers : WorkerTake(w)
    \/ \E w \in Workers : WorkerDone(w)
    \/ \E w \in Workers : WorkerRaise(w)
    \/ MapReturn

SpecMap == InitMap /\ [][NextMap]_vars

\* C8: under every interleaving of the workers, the list the map returns is as long
\* as the input and its k-th element is the function applied to the k-th input.
C8_MapIsSequential ==
    map_pc = "returned" =>
        /\ Len(map_result) = Len(map_iterable)
        /\ \A k \in 1..Len(map_iterable) :
              map_result[k] =
                  (CASE map_func = "preprocess" -> preprocess(map_iterable[k])
                     [] map_func = "test_preprocess" -> test_preprocess(map_iterable[k])
                     [] map_func = "get_length" -> get_length(map_iterable[k]))

\* A returned map of several chunks of more than one element each.
C8_Witness ==
    /\ map_pc = "returned"
    /\ map_chunksize >= 2
    /\ Len(map_iterable) > 2 * map_chunksize
    /\ map_func = "preprocess"

(***************************************************************************)
(* SpecSamp: nlp.data.sampler.FixedBucketSampler(train_data_lengths,       *)
(* batch_size, num_buckets=bucket_num, ratio=bucket_ratio, shuffle=True)   *)
(* and its iteration, once per epoch, by the training loop's               *)
(* enumerate(train_dataloader).                                            *)
(***************************************************************************)
\* bucket_num, bucket_ratio = 10, 0.2
bucket_num == 10
\* bucket_ratio = 0.2 as the fraction 1 / bucket_ratio_inv
bucket_ratio_inv == 5

\* Lengths of the preprocessed training samples the model draws from.
SampleLens == {0, 7, 40}

\* The permutations of a sequence.
Perms(seq) ==
    LET n == Len(seq)
    IN {[i \in 1..n |-> seq[f[i]]] :
            f \in {g \in [1..n -> 1..n] : \A a, b \in 1..n : a # b => g[a] # g[b]}}

SeqMax(seq) == CHOOSE m \in {seq[i] : i \in DOMAIN seq} : \A i \in DOMAIN seq : seq[i] <= m
SeqMin(seq) == CHOOSE m \in {seq[i] : i \in DOMAIN seq} : \A i \in DOMAIN seq : m <= seq[i]

\* ConstWidthBucket: bucket_width = max((max_len - min_len) // num_buckets, 1);
\* keys max(max_len - i * bucket_width, min_len) for i in reversed(range(num_buckets))
BucketKeys(lengths) ==
    LET max_len == SeqMax(lengths)
        min_len == SeqMin(lengths)
        bucket_width == Max((max_len - min_len) \div bucket_num, 1)
    IN [j \in 1..bucket_num |-> Max(max_len - (bucket_num - j) * bucket_width, min_len)]

\* _match_bucket_keys for one sample: the first bucket among those with the least
\* key - length >= 0.
MatchBucket(keys, len) ==
    LET valid == {j \in DOMAIN keys : keys[j] - len >= 0}
        best == {j \in valid : \A k \in valid : keys[j] <= keys[k]}
    IN CHOOSE j \in best : \A k \in best : j <= k

\* The sample ids (1-based) of each bucket, in increasing order.
BucketSampleIds(keys, lengths) ==
    [j \in DOMAIN keys |->
        SelectSeq([i \in 1..Len(lengths) |-> i],
                  LAMBDA i : MatchBucket(keys, lengths[i]) = j)]

\* The buckets that hold a sample, in order (the empty ones are removed).
NonEmpty(keys, ids) == SelectSeq([j \in DOMAIN keys |-> j], LAMBDA j : Len(ids[j]) > 0)

\* max(int(max_key / float(key) * ratio * batch_size), batch_size)
BucketBatchSize(max_key, key, batch_size) ==
    Max((max_key * batch_size) \div (key * bucket_ratio_inv), batch_size)

RECURSIVE BatchInfosDropLast(_, _, _)
\* A faulty _batch_infos: only the full batches of each bucket.
BatchInfosDropLast(ids, sizes, b) ==
    IF b > Len(ids) THEN <<>>
    ELSE [k \in 1..(Len(ids[b]) \div sizes[b]) |-> <<b, (k - 1) * sizes[b]>>]
         \o BatchInfosDropLast(ids, sizes, b + 1)

RECURSIVE BatchInfos(_, _, _)
\* for bucket_id, sample_ids, bucket_batch_size in zip(...):
\*     for i in range(0, len(sample_ids), bucket_batch_size): append((bucket_id, i))
BatchInfos(ids, sizes, b) ==
    IF b > Len(ids) THEN <<>>
    ELSE [k \in 1..((Len(ids[b]) + sizes[b] - 1) \div sizes[b]) |-> <<b, (k - 1) * sizes[b]>>]
         \o BatchInfos(ids, sizes, b + 1)

RECURSIVE ShuffledBuckets(_)
\* Every outcome of np.random.shuffle on each bucket's sample ids.
ShuffledBuckets(ids) ==
    IF ids = <<>> THEN {<<>>}
    ELSE {<<p>> \o rest : p \in Perms(Head(ids)), rest \in ShuffledBuckets(Tail(ids))}

RECURSIVE Flatten(_)
Flatten(batches) == IF batches = <<>> THEN <<>> ELSE Head(batches) \o Flatten(Tail(batches))

Count(seq, x) == Cardinality({i \in DOMAIN seq : seq[i] = x})

InitSamp ==
    /\ \E n \in 1..MaxSamples : samp_lengths \in [1..n -> SampleLens]
    /\ samp_batch_size \in 1..MaxBatchSize
    /\ samp_pc = "new"
    /\ samp_bucket_keys = <<>>
    /\ samp_bucket_sample_ids = <<>>
    /\ samp_bucket_batch_sizes = <<>>
    /\ samp_batch_infos = <<>>
    /\ samp_pos = 0
    /\ samp_yielded = <<>>
    /\ samp_epoch = 0
    /\ PreIdle /\ PoolIdle /\ MapIdle /\ TrIdle /\ InfIdle /\ CkIdle /\ RunIdle

\* FixedBucketSampler.__init__; a bucket with key 0 that holds a sample makes the
\* batch-size scaling divide by zero.
SamplerNew ==
    /\ samp_pc = "new"
    /\ LET all_keys == BucketKeys(samp_lengths)
           all_ids == BucketSampleIds(all_keys, samp_lengths)
           kept == NonEmpty(all_keys, all_ids)
           keys == [b \in 1..Len(kept) |-> all_keys[kept[b]]]
           ids == [b \in 1..Len(kept) |-> all_ids[kept[b]]]
       IN IF \E b \in DOMAIN keys : keys[b] = 0
          THEN /\ samp_pc' = "error"
               /\ UNCHANGED <<samp_bucket_keys, samp_bucket_sample_ids,
                              samp_bucket_batch_sizes, samp_batch_infos>>
          ELSE LET sizes == [b \in DOMAIN keys |->
                                BucketBatchSize(SeqMax(keys), keys[b], samp_batch_size)]
               IN /\ samp_pc' = "ready"
                  /\ samp_bucket_keys' = keys
                  /\ samp_bucket_sample_ids' = ids
                  /\ samp_bucket_batch_sizes' = sizes
                  /\ samp_batch_infos' = BatchInfos(ids, sizes, 1)
    /\ UNCHANGED <<samp_lengths, samp_batch_size, samp_pos, samp_yielded, samp_epoch>>
    /\ UNCHANGED NotSamp

\* __iter__ of a new epoch: np.random.shuffle(self._batch_infos) and
\* np.random.shuffle of each bucket's sample ids, in place.
IterStart ==
    /\ samp_pc = "ready"
    /\ samp_epoch < MaxEpochs
    /\ samp_pc' = "iterating"
    /\ samp_batch_infos' \in Perms(samp_batch_infos)
    /\ samp_bucket_sample_ids' \in ShuffledBuckets(samp_bucket_sample_ids)
    /\ samp_pos' = 0
    /\ samp_yielded' = <<>>
    /\ UNCHANGED <<samp_lengths, samp_batch_size, samp_bucket_keys,
                   samp_bucket_batch_sizes, samp_epoch>>
    /\ UNCHANGED NotSamp

\* The iterator yields self._bucket_sample_ids[bucket_id][batch_begin:batch_end].
IterYield ==
    /\ samp_pc = "iterating"
    /\ samp_pos < Len(samp_batch_infos)
    /\ LET info == samp_batch_infos[samp_pos + 1]
           bucket_id == info[1]
           batch_begin == info[2]
           batch_size == samp_bucket_batch_sizes[bucket_id]
           batch_end == Min(batch_begin + batch_size, Len(samp_bucket_sample_ids[bucket_id]))
       IN samp_yielded' = Append(samp_yielded,
                                 SubSeq(samp_bucket_sample_ids[bucket_id],
                                        batch_begin + 1, batch_end))
    /\ samp_pos' = samp_pos + 1
    /\ UNCHANGED <<samp_lengths, samp_batch_size, samp_pc, samp_bucket_keys,
                   samp_bucket_sample_ids, samp_bucket_batch_sizes, samp_batch_infos,
                   samp_epoch>>
    /\ UNCHANGED NotSamp

\* The iterator is exhausted: the epoch's batch loop ends.
IterStop ==
    /\ samp_pc = "iterating"
    /\ samp_pos = Len(samp_batch_infos)
    /\ samp_pc' = "ready"
    /\ samp_epoch' = samp_epoch + 1
    /\ UNCHANGED <<samp_lengths, samp_batch_size, samp_bucket_keys,
                   samp_bucket_sample_ids, samp_bucket_batch_sizes, samp_batch_infos,
                   samp_pos, samp_yielded>>
    /\ UNCHANGED NotSamp

NextSamp == SamplerNew \/ IterStart \/ IterYield \/ IterStop

SpecSamp == InitSamp /\ [][NextSamp]_vars

\* C2: in every epoch no sample index is yielded twice, and when the epoch's
\* iteration ends every sample index was yielded exactly once.
C2_ExactlyOncePerEpoch ==
    LET seen == Flatten(samp_yielded)
    IN /\ \A i \in 1..Len(samp_lengths) : Count(seen, i) <= 1
       /\ (samp_pc = "ready" /\ samp_epoch >= 1) =>
              \A i \in 1..Len(samp_lengths) : Count(seen, i) = 1

\* A second epoch ended whose bucket of three samples gave a full and a partial batch.
C2_Witness ==
    /\ samp_pc = "ready"
    /\ samp_epoch = 2
    /\ \E b \in DOMAIN samp_bucket_sample_ids :
          /\ Len(samp_bucket_sample_ids[b]) % samp_bucket_batch_sizes[b] # 0
          /\ Len(samp_bucket_sample_ids[b]) > samp_bucket_batch_sizes[b]
    /\ Len(Flatten(samp_yielded)) = Len(samp_lengths)

(***************************************************************************)
(* SpecTrain: the training loop, statement by statement.  The data loader  *)
(* is the sequence of its batches' sample counts; a batch's mean loss is   *)
(* any of LossVals.  The word counts and the timers of the log line are    *)
(* left out.                                                               *)
(***************************************************************************)
LossVals == {1, 2}
GradClipVals == {<<>>, <<0>>, <<1>>}

\* Python's truth value of grad_clip in "if grad_clip:"
Truthy(grad_clip) == grad_clip # <<>> /\ grad_clip[1] # 0

\* A faulty branch: the clipping runs whatever grad_clip is.
AfterBackwardAlways(grad_clip) == "clip"

\* if grad_clip: gluon.utils.clip_global_norm(...)
AfterBackward(grad_clip) == IF Truthy(grad_clip) THEN "clip" ELSE "step"

\* The divisor of the log line's average: log_interval_L / log_interval_sent_num
AvgLoss(log_interval_L, log_interval_sent_num) ==
    Divide(log_interval_L, log_interval_sent_num)

InitTrain ==
    /\ tr_epochs \in 1..MaxEpochs
    /\ tr_grad_clip \in GradClipVals
    /\ tr_log_interval \in 1..MaxLogInterval
    /\ \E b \in 1..MaxBatches : tr_loader \in [1..b -> 1..MaxBatchSize]
    /\ tr_pc = "epoch"
    /\ tr_epoch = 0
    /\ tr_i = 0
    /\ tr_L = 0
    /\ tr_loss = 0
    /\ tr_log_interval_sent_num = 0
    /\ tr_log_interval_L = 0
    /\ tr_epoch_sent_num = 0
    /\ tr_epoch_L = 0
    /\ tr_num_update = 0
    /\ tr_printed = <<>>
    /\ tr_trace = <<>>
    /\ tr_num_backward = 0
    /\ tr_terms = <<>>
    /\ tr_printed_terms = <<>>
    /\ PreIdle /\ PoolIdle /\ MapIdle /\ SampIdle /\ InfIdle /\ CkIdle /\ RunIdle

\* for epoch in range(epochs): the epoch's and the log interval's stats are cleared
EpochStart ==
    /\ tr_pc = "epoch"
    /\ tr_epoch < tr_epochs
    /\ tr_pc' = "fetch"
    /\ tr_i' = 0
    /\ tr_epoch_L' = 0
    /\ tr_epoch_sent_num' = 0
    /\ tr_log_interval_sent_num' = 0
    /\ tr_log_interval_L' = 0
    /\ tr_terms' = <<>>
    /\ UNCHANGED <<tr_epochs, tr_grad_clip, tr_log_interval, tr_loader, tr_epoch, tr_L,
                   tr_loss, tr_num_update, tr_printed, tr_trace, tr_num_backward,
                   tr_printed_terms>>
    /\ UNCHANGED NotTr

\* range(epochs) is exhausted
TrainDone ==
    /\ tr_pc = "epoch"
    /\ tr_epoch = tr_epochs
    /\ tr_pc' = "done"
    /\ UNCHANGED <<tr_epochs, tr_grad_clip, tr_log_interval, tr_loader, tr_epoch, tr_i,
                   tr_L, tr_loss, tr_log_interval_sent_num, tr_log_interval_L,
                   tr_epoch_sent_num, tr_epoch_L, tr_num_update, tr_printed, tr_trace,
                   tr_num_backward, tr_terms, tr_printed_terms>>
    /\ UNCHANGED NotTr

\* The loader yields batch i: L = 0 and the sentence counts grow by data.shape[1].
FetchBatch ==
    /\ tr_pc = "fetch"
    /\ tr_i < Len(tr_loader)
    /\ tr_pc' = "forward"
    /\ tr_L' = 0
    /\ tr_log_interval_sent_num' = tr_log_interval_sent_num + tr_loader[tr_i + 1]
    /\ tr_epoch_sent_num' = tr_epoch_sent_num + tr_loader[tr_i + 1]
    /\ tr_trace' = <<>>
    /\ UNCHANGED <<tr_epochs, tr_grad_clip, tr_log_interval, tr_loader, tr_epoch, tr_i,
                   tr_loss, tr_log_interval_L, tr_epoch_L, tr_num_update, tr_printed,
                   tr_num_backward, tr_terms, tr_printed_terms>>
    /\ UNCHANGED NotTr

\* The loader is exhausted: end_epoch_time = time.time() and the next epoch
EpochEnd ==
    /\ tr_pc = "fetch"
    /\ tr_i = Len(tr_loader)
    /\ tr_pc' = "epoch"
    /\ tr_epoch' = tr_epoch + 1
    /\ UNCHANGED <<tr_epochs, tr_grad_clip, tr_log_interval, tr_loader, tr_i, tr_L,
                   tr_loss, tr_log_interval_sent_num, tr_log_interval_L,
                   tr_epoch_sent_num, tr_epoch_L, tr_num_update, tr_printed, tr_trace,
                   tr_num_backward, tr_terms, tr_printed_terms>>
    /\ UNCHANGED NotTr

\* with autograd.record(): output = net(...); L = L + loss(output, label).mean()
Forward ==
    /\ tr_pc = "forward"
    /\ \E l \in LossVals :
          /\ tr_loss' = l
          /\ tr_L' = tr_L + l
    /\ tr_pc' = "backward"
    /\ tr_trace' = tr_trace \o <<"forward", "loss">>
    /\ UNCHANGED <<tr_epochs, tr_grad_clip, tr_log_interval, tr_loader, tr_epoch, tr_i,
                   tr_log_interval_sent_num, tr_log_interval_L, tr_epoch_sent_num,
                   tr_epoch_L, tr_num_update, tr_printed, tr_num_backward, tr_terms,
                   tr_printed_terms>>
    /\ UNCHANGED NotTr

\* L.backward()
Backward ==
    /\ tr_pc = "backward"
    /\ tr_pc' = AfterBackward(tr_grad_clip)
    /\ tr_num_backward' = tr_num_backward + 1
    /\ tr_trace' = Append(tr_trace, "backward")
    /\ UNCHANGED <<tr_epochs, tr_grad_clip, tr_log_interval, tr_loader, tr_epoch, tr_i,
                   tr_L, tr_loss, tr_log_interval_sent_num, tr_log_interval_L,
                   tr_epoch_sent_num, tr_epoch_L, tr_num_update, tr_printed, tr_terms,
                   tr_printed_terms>>
    /\ UNCHANGED NotTr

\* gluon.utils.clip_global_norm([p.grad(context) for p in parameters], grad_clip)
ClipGradient ==
    /\ tr_pc = "clip"
    /\ tr_pc' = "step"
    /\ tr_trace' = Append(tr_trace, "clip")
    /\ UNCHANGED <<tr_epochs, tr_grad_clip, tr_log_interval, tr_loader, tr_epoch, tr_i,
                   tr_L, tr_loss, tr_log_interval_sent_num, tr_log_interval_L,
                   tr_epoch_sent_num, tr_epoch_L, tr_num_update, tr_printed,
                   tr_num_backward, tr_terms, tr_printed_terms>>
    /\ UNCHANGED NotTr

\* trainer.step(1); log_interval_L += L.asscalar(); epoch_L += L.asscalar()
TrainerStep ==
    /\ tr_pc = "step"
    /\ tr_pc' = "log"
    /\ tr_num_update' = tr_num_update + 1
    /\ tr_log_interval_L' = tr_log_interval_L + tr_L
    /\ tr_epoch_L' = tr_epoch_L + tr_L
    /\ tr_terms' = Append(tr_terms, tr_L)
    /\ tr_trace' = Append(tr_trace, "step")
    /\ UNCHANGED <<tr_epochs, tr_grad_clip, tr_log_interval, tr_loader, tr_epoch, tr_i,
                   tr_L, tr_loss, tr_log_interval_sent_num, tr_epoch_sent_num,
                   tr_printed, tr_num_backward, tr_printed_terms>>
    /\ UNCHANGED NotTr

\* if (i + 1) % log_interval == 0: print(...), then the log interval's stats are cleared
LogPoint ==
    /\ tr_pc = "log"
    /\ (tr_i + 1) % tr_log_interval = 0
    /\ tr_printed' = [avg_loss |-> AvgLoss(tr_log_interval_L, tr_log_interval_sent_num),
                      epoch |-> tr_epoch, batch |-> tr_i + 1]
    /\ tr_printed_terms' = tr_terms
    /\ tr_log_interval_sent_num' = 0
    /\ tr_log_interval_L' = 0
    /\ tr_terms' = <<>>
    /\ tr_i' = tr_i + 1
    /\ tr_pc' = "fetch"
    /\ UNCHANGED <<tr_epochs, tr_grad_clip, tr_log_interval, tr_loader, tr_epoch, tr_L,
                   tr_loss, tr_epoch_sent_num, tr_epoch_L, tr_num_update, tr_trace,
                   tr_num_backward>>
    /\ UNCHANGED NotTr

\* (i + 1) % log_interval != 0: nothing is printed
NoLogPoint ==
    /\ tr_pc = "log"
    /\ (tr_i + 1) % tr_log_interval # 0
    /\ tr_i' = tr_i + 1
    /\ tr_pc' = "fetch"
    /\ UNCHANGED <<tr_epochs, tr_grad_clip, tr_log_interval, tr_loader, tr_epoch, tr_L,
                   tr_loss, tr_log_interval_sent_num, tr_log_interval_L,
                   tr_epoch_sent_num, tr_epoch_L, tr_num_update, tr_printed, tr_trace,
                   tr_num_backward, tr_terms, tr_printed_terms>>
    /\ UNCHANGED NotTr

NextTrain ==
    \/ EpochStart
    \/ TrainDone
    \/ FetchBatch
    \/ EpochEnd
    \/ Forward
    \/ Backward
    \/ ClipGradient
    \/ TrainerStep
    \/ LogPoint
    \/ NoLogPoint

SpecTrain == InitTrain /\ [][NextTrain]_vars

\* C6: each batch's step runs forward, loss over that batch alone, backward, clipping
\* only when a clip threshold is configured, then one optimizer step; no step comes
\* before its batch's backward pass, and after E epochs of B batches the optimizer has
\* stepped E * B times.
C6_StepOrder ==
    /\ tr_pc = "log" =>
          /\ tr_trace \in {<<"forward", "loss", "backward", "step">>,
                            <<"forward", "loss", "backward", "clip", "step">>}
          /\ tr_L = tr_loss
    /\ (\E k \in DOMAIN tr_trace : tr_trace[k] = "clip") => tr_grad_clip # <<>>
    /\ tr_num_update <= tr_num_backward
    /\ tr_num_backward <= tr_num_update + 1
    /\ tr_pc \in {"fetch", "epoch", "done"} =>
          tr_num_update = tr_epoch * Len(tr_loader) + (IF tr_pc = "fetch" THEN tr_i ELSE 0)
    /\ tr_pc = "done" => tr_num_update = tr_epochs * Len(tr_loader)

\* A finished run of two epochs of two batches whose steps were clipped.
C6_Witness ==
    /\ tr_pc = "done"
    /\ tr_epochs = 2
    /\ Len(tr_loader) = 2
    /\ tr_num_update = 4
    /\ tr_grad_clip = <<1>>
    /\ tr_trace = <<"forward", "loss", "backward", "clip", "step">>

RECURSIVE SumSeq(_)
SumSeq(seq) == IF seq = <<>> THEN 0 ELSE Head(seq) + SumSeq(Tail(seq))

\* C7: the loss printed at a log point is the sum of the per-batch losses accumulated
\* since the last reset divided by the number of terms accumulated.
C7_RunningMean ==
    tr_printed # <<>> =>
        tr_printed.avg_loss = Divide(SumSeq(tr_printed_terms), Len(tr_printed_terms))

(***************************************************************************)
(* The network.  Parameters are three small numbers (embedding, encoder,   *)
(* output head); features are scalars modulo 3.  The encoder is a          *)
(* recurrence over the time axis, as the LSTM is: its output at step t is  *)
(* a function of the inputs up to t.  The head's affine map and the        *)
(* sigmoid are kept symbolic.                                              *)
(***************************************************************************)
ParamVals == {0, 1}
Params == [embedding : ParamVals, encoder : ParamVals, output : ParamVals]

\* self.embedding(data), elementwise
Embedding(p, id) == (id + p.embedding) % 3

RECURSIVE EncoderState(_, _, _)
\* The encoder's output at step t for the inputs x[1..t] of one sample.
EncoderState(p, x, t) ==
    IF t = 0 THEN 0 ELSE (2 * EncoderState(p, x, t - 1) + x[t] + p.encoder) % 3

\* self.output(agg_state): Dropout (p = 0) then Dense(1)
OutputLayer(p, agg) == [weight |-> p.output, agg |-> agg]

\* SentimentNet.hybrid_forward(F, data, valid_length), data of shape (T, N)
SentimentNet(p, data, valid_length) ==
    LET T == Len(data)
        N == Len(valid_length)
        embedded == [t \in 1..T |-> [n \in 1..N |-> Embedding(p, data[t][n])]]
        encoded == [t \in 1..T |->
                       [n \in 1..N |->
                           EncoderState(p, [u \in 1..T |-> embedded[u][n]], t)]]
        agg_state == MeanPoolingLayer(encoded, valid_length)
    IN [n \in 1..N |-> OutputLayer(p, agg_state[n])]

\* result.sigmoid().asnumpy()[0]
Sigmoid(out) == [sigmoid |-> out]

(***************************************************************************)
(* SpecInfer: test_dataset, test_dataloader, the inference loop,           *)
(* predictions, submission and submission.csv.                             *)
(***************************************************************************)
TestTexts == << <<>>, <<"a">>, <<"b", " ", "a">> >>

\* test_df['id'] of row k
RowId(k) == 7000000 + k - 1

\* DataLoader(batch_size, last_batch='discard'): a partial last batch is dropped
NumBatchesDiscard(n, batch_size) == n \div batch_size

\* len(test_dataloader): DataLoader(dataset, batch_size, shuffle=False) keeps a partial
\* last batch
NumBatches(n, batch_size) == (n + batch_size - 1) \div batch_size

\* The dataset indices (1-based) of batch j of the sequential loader.
BatchIndices(n, batch_size, j) ==
    [k \in 1..(Min(j * batch_size, n) - (j - 1) * batch_size) |-> (j - 1) * batch_size + k]

\* nlp.data.batchify.Pad(axis=0, ret_length=True): the samples padded with 0 to the
\* longest of the batch, shape (N, T), and their lengths
Pad(samples) ==
    LET T == IF samples = <<>> THEN 0
             ELSE SeqMax([n \in DOMAIN samples |-> Len(samples[n])])
    IN [data |-> [n \in DOMAIN samples |->
                     [t \in 1..T |-> IF t <= Len(samples[n]) THEN samples[n][t] ELSE 0]],
        length |-> [n \in DOMAIN samples |-> Len(samples[n])]]

\* data.T
Transpose(data) ==
    LET N == Len(data)
        T == IF N = 0 THEN 0 ELSE Len(data[1])
    IN [t \in 1..T |-> [n \in 1..N |-> data[n][t]]]

InitInfer ==
    /\ \E n \in 0..MaxTestRows : \E texts \in [1..n -> 1..Len(TestTexts)] :
          inf_test_df = [k \in 1..n |-> [id |-> RowId(k), comment_text |-> TestTexts[texts[k]]]]
    /\ inf_batch_size \in 1..MaxBatchSize
    /\ inf_params \in Params
    /\ inf_pc = "raw"
    /\ inf_test_dataset = <<>>
    /\ inf_batch = 0
    /\ inf_results = <<>>
    /\ inf_predictions = <<>>
    /\ inf_submission = <<>>
    /\ inf_csv = <<>>
    /\ inf_pooled = <<>>
    /\ PreIdle /\ PoolIdle /\ MapIdle /\ SampIdle /\ TrIdle /\ CkIdle /\ RunIdle

\* test_data_raw = test_df[['comment_text']].values;
\* test_dataset = SimpleDataset(pool.map(test_preprocess, test_data_raw));
\* test_dataloader = DataLoader(test_dataset, batch_size, shuffle=False, ...); results = []
BuildTestDataset ==
    /\ inf_pc = "raw"
    /\ inf_test_dataset' = [k \in 1..Len(inf_test_df) |->
                                test_preprocess(<<inf_test_df[k].comment_text>>)]
    /\ inf_results' = <<>>
    /\ inf_batch' = 0
    /\ inf_pc' = "loop"
    /\ UNCHANGED <<inf_test_df, inf_batch_size, inf_params, inf_predictions,
                   inf_submission, inf_csv, inf_pooled>>
    /\ UNCHANGED NotInf

\* One turn of the inference loop: the loader pads the next batch, net runs on it and
\* results.extend(out for out in output).
InferBatch ==
    /\ inf_pc = "loop"
    /\ inf_batch < NumBatches(Len(inf_test_dataset), inf_batch_size)
    /\ LET idx == BatchIndices(Len(inf_test_dataset), inf_batch_size, inf_batch + 1)
           batch == Pad([k \in DOMAIN idx |-> inf_test_dataset[idx[k]]])
           data == Transpose(batch.data)
       IN IF Len(data) = 0
          THEN \* a batch of empty samples only has no time step: the framework
               \* rejects the zero-size array
               /\ inf_pc' = "error"
               /\ UNCHANGED <<inf_results, inf_batch, inf_pooled>>
          ELSE /\ inf_results' = inf_results \o SentimentNet(inf_params, data, batch.length)
               /\ inf_pooled' = Append(inf_pooled, batch.length)
               /\ inf_batch' = inf_batch + 1
               /\ inf_pc' = "loop"
    /\ UNCHANGED <<inf_test_df, inf_batch_size, inf_params, inf_test_dataset,
                   inf_predictions, inf_submission, inf_csv>>
    /\ UNCHANGED NotInf

\* test_dataloader is exhausted
InferLoopEnd ==
    /\ inf_pc = "loop"
    /\ inf_batch = NumBatches(Len(inf_test_dataset), inf_batch_size)
    /\ inf_pc' = "looped"
    /\ UNCHANGED <<inf_test_df, inf_batch_size, inf_params, inf_test_dataset, inf_batch,
                   inf_results, inf_predictions, inf_submission, inf_csv, inf_pooled>>
    /\ UNCHANGED NotInf

\* predictions = [result.sigmoid().asnumpy()[0] for result in results]
MakePredictions ==
    /\ inf_pc = "looped"
    /\ inf_predictions' = [k \in 1..Len(inf_results) |-> Sigmoid(inf_results[k])]
    /\ inf_pc' = "predicted"
    /\ UNCHANGED <<inf_test_df, inf_batch_size, inf_params, inf_test_dataset, inf_batch,
                   inf_results, inf_submission, inf_csv, inf_pooled>>
    /\ UNCHANGED NotInf

\* submission = pd.DataFrame.from_dict({'id': test_df['id'], 'prediction': predictions});
\* a list whose length is not that of the id column is refused
MakeSubmission ==
    /\ inf_pc = "predicted"
    /\ IF Len(inf_predictions) = Len(inf_test_df)
       THEN /\ inf_submission' = [k \in 1..Len(inf_test_df) |->
                                     [id |-> inf_test_df[k].id,
                                      prediction |-> inf_predictions[k]]]
            /\ inf_pc' = "submitted"
       ELSE /\ inf_pc' = "error"
            /\ UNCHANGED inf_submission
    /\ UNCHANGED <<inf_test_df, inf_batch_size, inf_params, inf_test_dataset, inf_batch,
                   inf_results, inf_predictions, inf_csv, inf_pooled>>
    /\ UNCHANGED NotInf

\* submission.to_csv('submission.csv', index=False)
WriteCsv ==
    /\ inf_pc = "submitted"
    /\ inf_csv' = << <<"id", "prediction">> >>
                   \o [k \in 1..Len(inf_submission) |->
                          <<inf_submission[k].id, inf_submission[k].prediction>>]
    /\ inf_pc' = "written"
    /\ UNCHANGED <<inf_test_df, inf_batch_size, inf_params, inf_test_dataset, inf_batch,
                   inf_results, inf_predictions, inf_submission, inf_pooled>>
    /\ UNCHANGED NotInf

NextInfer ==
    \/ BuildTestDataset
    \/ InferBatch
    \/ InferLoopEnd
    \/ MakePredictions
    \/ MakeSubmission
    \/ WriteCsv

SpecInfer == InitInfer /\ [][NextInfer]_vars

\* The output of the network on the k-th test example by itself: the encoder run over
\* the example's own tokens, averaged over them.
OutputAlone(k) ==
    LET toks == tokenizer(inf_test_df[k].comment_text)
        ids == [i \in 1..Min(Len(toks), 500) |-> vocab_idx(toks[i])]
        x == [i \in 1..Len(ids) |-> Embedding(inf_params, ids[i])]
        total == SumTo([t \in 1..Len(ids) |-> EncoderState(inf_params, x, t)], Len(ids))
    IN [weight |-> inf_params.output, agg |-> Divide(total, Len(ids))]

\* C1: after the inference loop, results holds one output per test example, in input
\* order; the submission has exactly N rows and row k pairs the k-th id with the
\* prediction computed from the k-th test example, whatever the batch size.
C1_SubmissionRows ==
    LET N == Len(inf_test_df)
    IN /\ inf_pc \in {"looped", "predicted"} =>
             /\ Len(inf_results) = N
             /\ \A k \in 1..N : inf_results[k] = OutputAlone(k)
       /\ inf_pc # "error" \/ inf_batch < NumBatches(N, inf_batch_size)
       /\ inf_pc \in {"submitted", "written"} =>
             /\ Len(inf_submission) = N
             /\ \A k \in 1..N :
                   /\ inf_submission[k].id = inf_test_df[k].id
                   /\ inf_submission[k].prediction = [sigmoid |-> OutputAlone(k)]

\* A written submission of three rows from batches of two: the last batch is partial
\* and a short example was padded.
C1_Witness ==
    /\ inf_pc = "written"
    /\ Len(inf_test_df) = 3
    /\ inf_batch_size = 2
    /\ Len(inf_submission) = 3
    /\ Len(inf_test_dataset[1]) # Len(inf_test_dataset[2])

\* C4: every sample that reaches MeanPoolingLayer has valid length >= 1, so the mean
\* pooling never divides by zero.
C4_ValidLengthPositive ==
    \A b \in DOMAIN inf_pooled : \A n \in DOMAIN inf_pooled[b] : inf_pooled[b][n] >= 1

(***************************************************************************)
(* SpecCkpt: net.save_parameters('lm-20190624-2'),                         *)
(* net.load_parameters('lm-20190624-2'), optimizer steps and the           *)
(* single-input prediction cell, run by hand in any order.                 *)
(***************************************************************************)
\* The names under which the parameters of net's children are stored in the file.
ParamNames == {"embedding.0.weight", "encoder.weight", "output.1.weight"}

\* The child of net a stored name belongs to.
FieldOf(name) ==
    CASE name = "embedding.0.weight" -> "embedding"
      [] name = "encoder.weight" -> "encoder"
      [] name = "output.1.weight" -> "output"

\* A faulty save: the encoder's entry gets the embedding's value.
SaveParametersMixed(p) ==
    [name \in ParamNames |->
        IF name = "encoder.weight" THEN p.embedding ELSE p[FieldOf(name)]]

\* net.save_parameters(filename): every parameter of net under its structural name
SaveParameters(p) == [name \in ParamNames |-> p[FieldOf(name)]]

\* net.load_parameters(filename) can load the file: it exists, holds every parameter
\* of net (allow_missing=False) and nothing else (ignore_extra=False)
Loadable(file) == file # <<>> /\ DOMAIN file = ParamNames

\* net.load_parameters(filename): every parameter of net set from its entry
LoadParameters(file) ==
    [f \in {"embedding", "encoder", "output"} |->
        file[CHOOSE name \in ParamNames : FieldOf(name) = f]]

\* vocab[['This', 'movie', 'is', 'amazing']] reshaped to (4, 1), valid length [4]:
\* four tokens, the last one out of the vocabulary
FixedInput == [t \in 1..4 |-> <<vocab(<<"a", "b", "a", "z">>)[t]>>]

\* net(mx.nd.reshape(..., shape=(-1, 1)), mx.nd.array([4])).sigmoid()
PredictFixed(p) == Sigmoid(SentimentNet(p, FixedInput, <<4>>)[1])

InitCkpt ==
    /\ net_params \in Params
    /\ file_params \in {<<>>} \cup {SaveParameters(p) : p \in Params}
    /\ net_out = <<>>
    /\ ck_hist = <<>>
    /\ ck_net_at_save = <<>>
    /\ ck_out_at_save = <<>>
    /\ PreIdle /\ PoolIdle /\ MapIdle /\ SampIdle /\ TrIdle /\ InfIdle /\ RunIdle

\* trainer.step(1): the parameters move
CkStep ==
    /\ Len(ck_hist) < MaxOps
    /\ net_params' \in Params \ {net_params}
    /\ ck_hist' = Append(ck_hist, "step")
    /\ UNCHANGED <<file_params, net_out, ck_net_at_save, ck_out_at_save>>
    /\ UNCHANGED NotCk

\* net.save_parameters('lm-20190624-2')
CkSave ==
    /\ Len(ck_hist) < MaxOps
    /\ file_params' = SaveParameters(net_params)
    /\ ck_hist' = Append(ck_hist, "save")
    /\ ck_net_at_save' = net_params
    /\ ck_out_at_save' = PredictFixed(net_params)
    /\ UNCHANGED <<net_params, net_out>>
    /\ UNCHANGED NotCk

\* net.load_parameters('lm-20190624-2'); it raises when the file cannot be loaded
CkLoad ==
    /\ Len(ck_hist) < MaxOps
    /\ IF Loadable(file_params)
       THEN /\ net_params' = LoadParameters(file_params)
            /\ ck_hist' = Append(ck_hist, "load")
       ELSE /\ ck_hist' = Append(ck_hist, "load_error")
            /\ UNCHANGED net_params
    /\ UNCHANGED <<file_params, net_out, ck_net_at_save, ck_out_at_save>>
    /\ UNCHANGED NotCk

\* The single-input prediction cell
CkPredict ==
    /\ Len(ck_hist) < MaxOps
    /\ net_out' = PredictFixed(net_params)
    /\ ck_hist' = Append(ck_hist, "predict")
    /\ UNCHANGED <<net_params, file_params, ck_net_at_save, ck_out_at_save>>
    /\ UNCHANGED NotCk

NextCkpt == CkStep \/ CkSave \/ CkLoad \/ CkPredict

SpecCkpt == InitCkpt /\ [][NextCkpt]_vars

\* The last operation was a load, and the one before it a save.
SavedThenLoaded ==
    /\ Len(ck_hist) >= 2
    /\ ck_hist[Len(ck_hist)] = "load"
    /\ ck_hist[Len(ck_hist) - 1] = "save"

Cells ==
    <<"net", "read_csv", "map_train", "map_test", "loaders", "trainer", "train",
      "load_parameters", "save_parameters", "predict", "infer", "predictions",
      "submission", "to_csv">>

CellSet == {Cells[k] : k \in 1..Len(Cells)}

CellIndex(c) == CHOOSE k \in 1..Len(Cells) : Cells[k] = c

\* The cell that stands after cell c, "done" after the last one.
NextCell(c) == IF CellIndex(c) < Len(Cells) THEN Cells[CellIndex(c) + 1] ELSE "done"

\* Cells made of one statement sequence whose operation can raise: loading the
\* pretrained model, reading the csv files, the two pool.map calls (a worker's
\* exception is re-raised by map), building the samplers and loaders.
RaisingCells == {"net", "read_csv", "map_train", "map_test", "loaders"}

\* Cells made of one statement sequence that is not taken to raise.
PlainCells == {"trainer", "predictions", "submission"}

\* The operation of a one-sequence cell that can raise.
CellOp(c) ==
    CASE c \in {"net", "read_csv"} -> "loading"
      [] c \in {"map_train", "map_test"} -> "worker"
      [] OTHER -> "construction"

\* A run whose cells catch the exception and go on with the next cell.
OnErrorContinue(c) == NextCell(c)

\* Where the run stands after cell c raised: nothing catches the exception.
OnError(c) == "aborted"

InitRun ==
    /\ run_epochs \in 1..MaxEpochs
    /\ run_train_batches \in 1..MaxBatches
    /\ run_test_batches \in 0..MaxTestBatches
    /\ run_pc = Cells[1]
    /\ run_loop = "out"
    /\ run_epoch = 0
    /\ run_batch = 0
    /\ run_results = 0
    /\ run_csv = <<>>
    /\ run_failed = "none"
    /\ run_failed_op = "none"
    /\ run_attempts = [c \in CellSet |-> 0]
    /\ run_ops = [c \in {"train", "predict", "infer"} |-> 0]
    /\ run_done = {}
    /\ net_params \in Params
    /\ file_params \in {<<>>} \cup {SaveParameters(p) : p \in Params}
    /\ net_out = <<>>
    /\ ck_hist = <<>>
    /\ ck_net_at_save = <<>>
    /\ ck_out_at_save = <<>>
    /\ PreIdle /\ PoolIdle /\ MapIdle /\ SampIdle /\ TrIdle /\ InfIdle

\* Cell c ran to its end.
Finish(c) ==
    /\ run_pc' = NextCell(c)
    /\ run_done' = run_done \cup {c}

\* Operation op of cell c raised.
Raise(c, op) ==
    /\ run_pc' = OnError(c)
    /\ run_failed' = c
    /\ run_failed_op' = op
    /\ UNCHANGED run_done

RunConfig == <<run_epochs, run_train_batches, run_test_batches>>

\* A one-sequence cell runs to its end.
RunCell ==
    /\ run_pc \in RaisingCells \cup PlainCells
    /\ run_attempts' = [run_attempts EXCEPT ![run_pc] = @ + 1]
    /\ Finish(run_pc)
    /\ UNCHANGED <<RunConfig, run_loop, run_epoch, run_batch, run_results, run_csv,
                   run_failed, run_failed_op, run_ops>>
    /\ UNCHANGED ckVars
    /\ UNCHANGED NotRun

\* A one-sequence cell raises.
RunCellRaise ==
    /\ run_pc \in RaisingCells
    /\ run_attempts' = [run_attempts EXCEPT ![run_pc] = @ + 1]
    /\ Raise(run_pc, CellOp(run_pc))
    /\ UNCHANGED <<RunConfig, run_loop, run_epoch, run_batch, run_results, run_csv, run_ops>>
    /\ UNCHANGED ckVars
    /\ UNCHANGED NotRun

\* for epoch in range(epochs): the training cell is entered
TrainEnter ==
    /\ run_pc = "train" /\ run_loop = "out"
    /\ run_loop' = "in"
    /\ run_epoch' = 0
    /\ run_batch' = 0
    /\ run_attempts' = [run_attempts EXCEPT !["train"] = @ + 1]
    /\ UNCHANGED <<RunConfig, run_pc, run_results, run_csv, run_failed, run_failed_op,
                   run_ops, run_done>>
    /\ UNCHANGED ckVars
    /\ UNCHANGED NotRun

\* One body of the batch loop: forward, backward, trainer.step(1)
TrainBatchOk ==
    /\ run_pc = "train" /\ run_loop = "in"
    /\ run_batch < run_train_batches
    /\ run_batch' = run_batch + 1
    /\ run_ops' = [run_ops EXCEPT !["train"] = @ + 1]
    /\ net_params' \in Params
    /\ ck_hist' = Append(ck_hist, "step")
    /\ UNCHANGED <<RunConfig, run_pc, run_loop, run_epoch, run_results, run_csv, run_failed,
                   run_failed_op, run_attempts, run_done>>
    /\ UNCHANGED <<file_params, net_out, ck_net_at_save, ck_out_at_save>>
    /\ UNCHANGED NotRun

\* The forward or the backward computation of a batch raises: no step is taken
TrainBatchRaise ==
    /\ run_pc = "train" /\ run_loop = "in"
    /\ run_batch < run_train_batches
    /\ run_ops' = [run_ops EXCEPT !["train"] = @ + 1]
    /\ \E op \in {"forward", "backward"} : Raise("train", op)
    /\ run_loop' = "out"
    /\ UNCHANGED <<RunConfig, run_epoch, run_batch, run_results, run_csv, run_attempts>>
    /\ UNCHANGED ckVars
    /\ UNCHANGED NotRun

\* The batch loop of an epoch is over and another epoch follows
TrainEpochEnd ==
    /\ run_pc = "train" /\ run_loop = "in"
    /\ run_batch = run_train_batches
    /\ run_epoch + 1 < run_epochs
    /\ run_epoch' = run_epoch + 1
    /\ run_batch' = 0
    /\ UNCHANGED <<RunConfig, run_pc, run_loop, run_results, run_csv, run_failed,
                   run_failed_op, run_attempts, run_ops, run_done>>
    /\ UNCHANGED ckVars
    /\ UNCHANGED NotRun

\* The last epoch is over
TrainEnd ==
    /\ run_pc = "train" /\ run_loop = "in"
    /\ run_batch = run_train_batches
    /\ run_epoch + 1 = run_epochs
    /\ run_epoch' = run_epoch + 1
    /\ run_loop' = "out"
    /\ Finish("train")
    /\ UNCHANGED <<RunConfig, run_batch, run_results, run_csv, run_failed, run_failed_op,
                   run_attempts, run_ops>>
    /\ UNCHANGED ckVars
    /\ UNCHANGED NotRun

\* net.load_parameters('lm-20190624-2'), the cell before the save
RunLoadParameters ==
    /\ run_pc = "load_parameters"
    /\ run_attempts' = [run_attempts EXCEPT !["load_parameters"] = @ + 1]
    /\ IF Loadable(file_params)
       THEN /\ net_params' = LoadParameters(file_params)
            /\ ck_hist' = Append(ck_hist, "load")
            /\ Finish("load_parameters")
            /\ UNCHANGED <<run_failed, run_failed_op>>
       ELSE /\ ck_hist' = Append(ck_hist, "load_error")
            /\ Raise("load_parameters", "loading")
            /\ UNCHANGED net_params
    /\ UNCHANGED <<RunConfig, run_loop, run_epoch, run_batch, run_results, run_csv, run_ops>>
    /\ UNCHANGED <<file_params, net_out, ck_net_at_save, ck_out_at_save>>
    /\ UNCHANGED NotRun

\* net.save_parameters('lm-20190624-2')
RunSaveParameters ==
    /\ run_pc = "save_parameters"
    /\ run_attempts' = [run_attempts EXCEPT !["save_parameters"] = @ + 1]
    /\ file_params' = SaveParameters(net_params)
    /\ ck_hist' = Append(ck_hist, "save")
    /\ ck_net_at_save' = net_params
    /\ ck_out_at_save' = PredictFixed(net_params)
    /\ Finish("save_parameters")
    /\ UNCHANGED <<RunConfig, run_loop, run_epoch, run_batch, run_results, run_csv,
                   run_failed, run_failed_op, run_ops>>
    /\ UNCHANGED <<net_params, net_out>>
    /\ UNCHANGED NotRun

\* The single-input prediction cell
RunPredict ==
    /\ run_pc = "predict"
    /\ run_attempts' = [run_attempts EXCEPT !["predict"] = @ + 1]
    /\ run_ops' = [run_ops EXCEPT !["predict"] = @ + 1]
    /\ net_out' = PredictFixed(net_params)
    /\ ck_hist' = Append(ck_hist, "predict")
    /\ Finish("predict")
    /\ UNCHANGED <<RunConfig, run_loop, run_epoch, run_batch, run_results, run_csv,
                   run_failed, run_failed_op>>
    /\ UNCHANGED <<net_params, file_params, ck_net_at_save, ck_out_at_save>>
    /\ UNCHANGED NotRun

\* results = []: the inference cell is entered
InferEnter ==
    /\ run_pc = "infer" /\ run_loop = "out"
    /\ run_loop' = "in"
    /\ run_batch' = 0
    /\ run_results' = 0
    /\ run_attempts' = [run_attempts EXCEPT !["infer"] = @ + 1]
    /\ UNCHANGED <<RunConfig, run_pc, run_epoch, run_csv, run_failed, run_failed_op,
                   run_ops, run_done>>
    /\ UNCHANGED ckVars
    /\ UNCHANGED NotRun

\* One body of the inference loop: the forward pass, results.append(...)
InferBatchOk ==
    /\ run_pc = "infer" /\ run_loop = "in"
    /\ run_batch < run_test_batches
    /\ run_batch' = run_batch + 1
    /\ run_results' = run_results + 1
    /\ run_ops' = [run_ops EXCEPT !["infer"] = @ + 1]
    /\ UNCHANGED <<RunConfig, run_pc, run_loop, run_epoch, run_csv, run_failed,
                   run_failed_op, run_attempts, run_done>>
    /\ UNCHANGED ckVars
    /\ UNCHANGED NotRun

\* The forward pass of a test batch raises: nothing is appended
InferBatchRaise ==
    /\ run_pc = "infer" /\ run_loop = "in"
    /\ run_batch < run_test_batches
    /\ run_ops' = [run_ops EXCEPT !["infer"] = @ + 1]
    /\ Raise("infer", "forward")
    /\ run_loop' = "out"
    /\ UNCHANGED <<RunConfig, run_epoch, run_batch, run_results, run_csv, run_attempts>>
    /\ UNCHANGED ckVars
    /\ UNCHANGED NotRun

\* The test loader is exhausted
InferEnd ==
    /\ run_pc = "infer" /\ run_loop = "in"
    /\ run_batch = run_test_batches
    /\ run_loop' = "out"
    /\ Finish("infer")
    /\ UNCHANGED <<RunConfig, run_epoch, run_batch, run_results, run_csv, run_failed,
                   run_failed_op, run_attempts, run_ops>>
    /\ UNCHANGED ckVars
    /\ UNCHANGED NotRun

\* submission.to_csv('submission.csv', index=False)
RunToCsv ==
    /\ run_pc = "to_csv"
    /\ run_attempts' = [run_attempts EXCEPT !["to_csv"] = @ + 1]
    /\ run_csv' = <<run_results>>
    /\ Finish("to_csv")
    /\ UNCHANGED <<RunConfig, run_loop, run_epoch, run_batch, run_results, run_failed,
                   run_failed_op, run_ops>>
    /\ UNCHANGED ckVars
    /\ UNCHANGED NotRun

NextRun ==
    \/ RunCell
    \/ RunCellRaise
    \/ TrainEnter
    \/ TrainBatchOk
    \/ TrainBatchRaise
    \/ TrainEpochEnd
    \/ TrainEnd
    \/ RunLoadParameters
    \/ RunSaveParameters
    \/ RunPredict
    \/ InferEnter
    \/ InferBatchOk
    \/ InferBatchRaise
    \/ InferEnd
    \/ RunToCsv

SpecRun == InitRun /\ [][NextRun]_vars

\* The cells that stand before cell c.
CellsBefore(c) == {Cells[k] : k \in 1..(CellIndex(c) - 1)}

\* The forward passes that ran to their end in the training and the inference loop.
PassesDone == Count(ck_hist, "step") + run_results

\* C9: an error in a preprocessing worker, in loading, or in a forward or backward
\* computation ends the run: the run stands aborted, exactly the cells before the
\* failing one ran to their end, no later cell was started, the failing operation
\* was started once and never again, and no submission file exists.  A submission
\* file exists only when every earlier cell ran to its end without an error.
C9_ErrorsAreFatal ==
    /\ run_failed # "none" =>
        /\ run_pc = "aborted"
        /\ run_csv = <<>>
        /\ run_done = CellsBefore(run_failed)
        /\ \A c \in CellSet \ (run_done \cup {run_failed}) : run_attempts[c] = 0
    /\ run_csv # <<>> =>
        /\ run_failed = "none"
        /\ run_done = CellSet
    /\ \A c \in CellSet : run_attempts[c] <= 1
    /\ run_ops["train"] + run_ops["infer"] =
        PassesDone + (IF run_failed \in {"train", "infer"} THEN 1 ELSE 0)

\* The backward computation of the second batch raised, after one optimizer step.
C9_Witness ==
    /\ run_failed = "train"
    /\ run_failed_op = "backward"
    /\ Count(ck_hist, "step") = 1
    /\ run_ops["train"] = 2
    /\ run_pc = "aborted"

\* C11: in a run of the cells in their written order the trained parameters are
\* saved before any load from the file (every load, failed or not, has a save before
\* it), and once the inference loop has started a forward pass no load stands
\* after the last optimizer step.
C11_SaveBeforeLoad ==
    /\ \A i \in 1..Len(ck_hist) :
        ck_hist[i] \in {"load", "load_error"} =>
            \E j \in 1..(i - 1) : ck_hist[j] = "save"
    /\ run_ops["infer"] > 0 =>
        \A i \in 1..Len(ck_hist) :
            ck_hist[i] = "load" => \E j \in (i + 1)..Len(ck_hist) : ck_hist[j] = "step"

=============================================================================
